---- MODULE Spec2Model ----
(***************************************************************************)
(* Generation state machine (GenerationAgent durable object) and the SSE   *)
(* stream handler that polls it, as written in the repository's code       *)
(* patterns (.github/agents/c2c-implementer.agent.md and                   *)
(* c2c-engineer.agent.md).                                                 *)
(*                                                                         *)
(* Every `await` of the code is a point where another call may run.  A     *)
(* storage operation takes effect in the order it is issued: get() reads   *)
(* the value stored when it is issued, put() stores (or fails) when it is  *)
(* issued, and the caller resumes in a later step.  stream.writeSSE is     *)
(* treated the same way.  Timestamps (createdAt, updatedAt) are never read *)
(* by the code and are left out of the state records.                      *)
(*                                                                         *)
(* Phase generation (generatePhase, withRetry, callAI) is modelled as one  *)
(* call at a time whose history of settled calls, backoff delays and       *)
(* emitted events is kept in inf.                                          *)
(***************************************************************************)
EXTENDS Integers, Sequences, FiniteSets, TLC

\* ---- bounds ------------------------------------------------------------
\* advancePhase is not invoked once the cursor has reached MaxCursor
MaxCursor == 2
\* startGeneration(totalPhases) is called with totalPhases in 1..MaxPhases
MaxPhases == 2
\* the stream handler and its heartbeat stop being scheduled at MaxEvents events
MaxEvents == 4
\* an agent whose fresh state was never stored is not evicted once MaxUuid ids were drawn
MaxUuid == 2
\* the heartbeat timer stops being scheduled once MaxHeartbeats heartbeats were written
MaxHeartbeats == 1
\* withRetry is called directly with maxAttempts in 0..MaxAttempts
MaxAttempts == 3
\* the same two limits for a channel streaming a session that nobody drives
QuietEvents == 5
QuietHeartbeats == 3
\* the number of phases of the plan in the run whose phases all succeed
PlanPhases == 3
\* the subscriber of that run stops polling at PlanEvents events
PlanEvents == 5

\* ---- sets ---------------------------------------------------------------
Clients  == {"a", "b"}          \* concurrent callers of the agent's methods
Chans    == {"s"}               \* subscriber channels (one stream handler each)
Slots    == Clients \cup Chans  \* a channel calls agent.getState() in its own slot
Errors   == {"e1"}              \* failGeneration(error) arguments
Terminal == {"completed", "failed"}

VARIABLES
    mem,      \* GenerationAgent.state (the in-memory copy; NoState = null)
    stored,   \* ctx.storage 'state' entry (NoState = absent)
    uuid,     \* number of crypto.randomUUID() session ids handed out
    faults,   \* whether ctx.storage.put may reject in this run
    call,     \* per slot: the method call in progress and its locals
    chan,     \* per channel: the stream handler's locals and the events written
    inf,      \* the phase generation / retry call in progress and its history
    keys,     \* the provider credential lookup: environment, call and result
    tmpl,     \* the getTemplateForQuery call: service replies and calls made
    agents,   \* the states of the code generator agents, and the cloneAgent call
    upload    \* the file-upload hook: attachment list and reads in progress

\* the variables of the components that share nothing with the generation agent
others == <<keys, tmpl, agents, upload>>

vars == <<mem, stored, uuid, faults, call, chan, inf, keys, tmpl, agents, upload>>

\* null / undefined
NoState == [sessionId |-> 0, status |-> "none", currentPhase |-> 0,
            totalPhases |-> 0, error |-> "null"]

\* loadState's fresh state
FreshState(id) == [sessionId |-> id, status |-> "idle", currentPhase |-> 0,
                   totalPhases |-> 0, error |-> "null"]

\* { ...current, ...updates }
Merge(current, updates) ==
    [f \in DOMAIN current |-> IF f \in DOMAIN updates THEN updates[f] ELSE current[f]]

NoUpd == [status |-> "none"]

IdleCall == [op |-> "none", pc |-> "idle", fr |-> "-", val |-> NoState,
             upd |-> NoUpd, ok |-> TRUE, state |-> NoState, ret |-> NoState]

\* a call that has returned value ret / that has thrown (its locals are gone)
Returned(c, ret) == [IdleCall EXCEPT !.op = c.op, !.pc = "done", !.ret = ret]
Threw(c)         == [IdleCall EXCEPT !.op = c.op, !.pc = "threw"]

\* The synchronous part of loadState(): a cache hit returns this.state,
\* a miss issues storage.get('state').  fr is the frame awaiting the result.
LoadCall(c, fr) ==
    IF mem # NoState
      THEN [c EXCEPT !.pc = "load_hit", !.fr = fr, !.val = mem]
      ELSE [c EXCEPT !.pc = "load_get", !.fr = fr, !.val = stored]

\* ---- GenerationAgent methods: invocation up to the first await ----------
StartUpdates(totalPhases) ==
    [status |-> "bootstrapping", currentPhase |-> 0,
     totalPhases |-> totalPhases, error |-> "null"]

startGeneration(s, totalPhases) ==
    /\ call[s].pc = "idle"
    /\ call' = [call EXCEPT ![s] =
                  LoadCall([IdleCall EXCEPT !.op = "startGeneration",
                                            !.upd = StartUpdates(totalPhases)], "us")]
    /\ UNCHANGED <<mem, stored, uuid, faults, chan, inf, others>>

FailUpdates(error) == [status |-> "failed", error |-> error]

failGeneration(s, error) ==
    /\ call[s].pc = "idle"
    /\ call' = [call EXCEPT ![s] =
                  LoadCall([IdleCall EXCEPT !.op = "failGeneration",
                                            !.upd = FailUpdates(error)], "us")]
    /\ UNCHANGED <<mem, stored, uuid, faults, chan, inf, others>>

CursorBelowBound ==
    IF mem # NoState THEN mem.currentPhase < MaxCursor
                     ELSE stored.currentPhase < MaxCursor

advancePhase(s) ==
    /\ call[s].pc = "idle"
    /\ CursorBelowBound
    /\ call' = [call EXCEPT ![s] =
                  LoadCall([IdleCall EXCEPT !.op = "advancePhase"], "ap")]
    /\ UNCHANGED <<mem, stored, uuid, faults, chan, inf, others>>

getState(s) ==
    /\ call[s].pc = "idle"
    /\ call' = [call EXCEPT ![s] =
                  LoadCall([IdleCall EXCEPT !.op = "getState"], "gs")]
    /\ UNCHANGED <<mem, stored, uuid, faults, chan, inf, others>>

\* await this.ctx.storage.put(...) resolves (TRUE) or rejects (FALSE)
PutOutcomes == IF faults THEN BOOLEAN ELSE {TRUE}

\* ---- loadState after `await this.ctx.storage.get` -----------------------
LoadGetDone(s) ==
    /\ call[s].pc = "load_get"
    /\ IF call[s].val # NoState
         THEN /\ mem' = call[s].val
              /\ call' = [call EXCEPT ![s].pc = "load_hit"]
              /\ UNCHANGED <<stored, uuid>>
         ELSE /\ uuid' = uuid + 1
              /\ mem' = FreshState(uuid + 1)
              /\ \E ok \in PutOutcomes :
                    /\ stored' = IF ok THEN FreshState(uuid + 1) ELSE stored
                    /\ call' = [call EXCEPT ![s].pc = "load_put", ![s].ok = ok,
                                            ![s].val = NoState]
    /\ UNCHANGED <<faults, chan, inf, others>>

\* ---- loadState after `await this.ctx.storage.put` of the fresh state ----
LoadPutDone(s) ==
    /\ call[s].pc = "load_put"
    /\ call' = [call EXCEPT ![s] =
                  IF call[s].ok
                    THEN [call[s] EXCEPT !.pc = "load_hit", !.val = mem]
                    ELSE Threw(call[s])]
    /\ UNCHANGED <<mem, stored, uuid, faults, chan, inf, others>>

\* advancePhase's update, computed from the state it loaded
AdvanceUpdates(state) ==
    LET newPhase == state.currentPhase + 1
    IN  [status |-> IF newPhase >= state.totalPhases THEN "completed" ELSE "generating",
         currentPhase |-> newPhase]

\* ---- the caller resumes after `await this.loadState()` ------------------
LoadResolved(s) ==
    /\ call[s].pc = "load_hit"
    /\ CASE call[s].fr = "gs" ->
              /\ call' = [call EXCEPT ![s] = Returned(call[s], call[s].val)]
              /\ UNCHANGED <<mem, stored>>
         [] call[s].fr = "ap" ->
              /\ call' = [call EXCEPT ![s] =
                            LoadCall([call[s] EXCEPT !.state = call[s].val,
                                                     !.upd = AdvanceUpdates(call[s].val)],
                                     "us")]
              /\ UNCHANGED <<mem, stored>>
         [] call[s].fr = "us" ->
              /\ mem' = Merge(call[s].val, call[s].upd)
              /\ \E ok \in PutOutcomes :
                    /\ stored' = IF ok THEN mem' ELSE stored
                    /\ call' = [call EXCEPT ![s].pc = "upd_put", ![s].ok = ok,
                                            ![s].fr = "-", ![s].val = NoState,
                                            ![s].upd = NoUpd]
    /\ UNCHANGED <<uuid, faults, chan, inf, others>>

\* ---- updateState after `await this.ctx.storage.put` ---------------------
UpdPutDone(s) ==
    /\ call[s].pc = "upd_put"
    /\ call' = [call EXCEPT ![s] =
                  IF call[s].ok THEN Returned(call[s], mem) ELSE Threw(call[s])]
    /\ UNCHANGED <<mem, stored, uuid, faults, chan, inf, others>>

\* the caller has taken the result (or the error) of its call
Release(s) ==
    /\ s \in Clients
    /\ call[s].pc \in {"done", "threw"}
    /\ call' = [call EXCEPT ![s] = IdleCall]
    /\ UNCHANGED <<mem, stored, uuid, faults, chan, inf, others>>

\* the durable object is evicted while idle and constructed again: state = null
Restart ==
    /\ \A s \in Slots : call[s].pc = "idle"
    /\ mem # NoState
    /\ stored # NoState \/ uuid < MaxUuid
    /\ mem' = NoState
    /\ UNCHANGED <<stored, uuid, faults, call, chan, inf, others>>

\* ---- SSE stream handler ---------------------------------------------------
InitChan == [pc |-> "init", isActive |-> FALSE, timer |-> FALSE, lastStatus |-> "",
             st |-> "", w |-> TRUE, hb |-> "none", events |-> <<>>]

ConnectedEvent  == [event |-> "connected", status |-> ""]
HeartbeatEvent  == [event |-> "heartbeat", status |-> ""]
ErrorEvent      == [event |-> "error", status |-> ""]
StatusEvent(st) == [event |-> "status", status |-> st]

IsHeartbeat(ev) == ev.event = "heartbeat"
IsStatus(ev)    == ev.event = "status"

\* stream.writeSSE(ev): the event reaches the channel unless the write fails
WriteSSE(h, ev, ok) ==
    [h EXCEPT !.w = ok, !.events = IF ok THEN Append(@, ev) ELSE @]

\* the comparison dropped: every non-empty polled status counts as a change
StatusChangedAlways(status, lastStatus) == status # ""

\* if (state.status !== lastStatus)
StatusChanged(status, lastStatus) == status # lastStatus

\* the break taken for completed only
IsTerminalCompletedOnly(status) == status = "completed"

\* the break taken for failed only
IsTerminalFailedOnly(status) == status = "failed"

\* if (state.status === 'completed' || state.status === 'failed') break
IsTerminal(status) == status = "completed" \/ status = "failed"

\* the handler left without its cleanup
FinallyWithoutCleanup(h) == [h EXCEPT !.pc = "closed", !.st = "", !.w = TRUE]

\* finally { isActive = false; clearInterval(heartbeatInterval) }
Finally(h) == [h EXCEPT !.pc = "closed", !.isActive = FALSE, !.timer = FALSE,
                        !.st = "", !.w = TRUE]

Sleep(h) == [h EXCEPT !.pc = "sleep", !.st = "", !.w = TRUE]

\* catch (error) { await stream.writeSSE({ event: 'error', ... }) }
Catch(ch, h) ==
    \E ok \in BOOLEAN :
        chan' = [chan EXCEPT ![ch] =
                   WriteSSE([h EXCEPT !.pc = "w_error", !.st = ""], ErrorEvent, ok)]

\* while (isActive) { const state = await agent.getState(); ...
LoopIter(ch, h) ==
    IF h.isActive
      THEN /\ chan' = [chan EXCEPT ![ch] = [h EXCEPT !.pc = "polling", !.w = TRUE]]
           /\ call' = [call EXCEPT ![ch] =
                         LoadCall([IdleCall EXCEPT !.op = "getState"], "gs")]
      ELSE /\ chan' = [chan EXCEPT ![ch] = Finally(h)]
           /\ UNCHANGED call

\* streamSSE callback up to `await stream.writeSSE({ event: 'connected' })`
StreamOpen(ch) ==
    /\ chan[ch].pc = "init"
    /\ \E ok \in BOOLEAN :
          chan' = [chan EXCEPT ![ch] =
                     WriteSSE([chan[ch] EXCEPT !.isActive = TRUE, !.timer = TRUE,
                                               !.pc = "w_connected"],
                              ConnectedEvent, ok)]
    /\ UNCHANGED <<mem, stored, uuid, faults, call, inf, others>>

\* the result of the connected write ignored: the loop starts even after a failure
ConnectedWrittenIgnoringFailure(ch) ==
    /\ chan[ch].pc = "w_connected"
    /\ LoopIter(ch, [chan[ch] EXCEPT !.lastStatus = ""])
    /\ UNCHANGED <<mem, stored, uuid, faults, inf, others>>

ConnectedWritten(ch) ==
    /\ chan[ch].pc = "w_connected"
    /\ IF chan[ch].w
         THEN LoopIter(ch, [chan[ch] EXCEPT !.lastStatus = ""])
         ELSE Catch(ch, chan[ch]) /\ UNCHANGED call
    /\ UNCHANGED <<mem, stored, uuid, faults, inf, others>>

\* agent.getState() has returned: compare, write the status event, break or sleep
PollDone(ch) ==
    /\ chan[ch].pc = "polling"
    /\ call[ch].pc = "done"
    /\ call' = [call EXCEPT ![ch] = IdleCall]
    /\ LET status == call[ch].ret.status
           h == [chan[ch] EXCEPT !.st = status]
       IN  IF StatusChanged(status, h.lastStatus)
             THEN \E ok \in BOOLEAN :
                     chan' = [chan EXCEPT ![ch] =
                                WriteSSE([h EXCEPT !.lastStatus = status,
                                                   !.pc = "w_status"],
                                         StatusEvent(status), ok)]
             ELSE chan' = [chan EXCEPT ![ch] =
                             IF IsTerminal(status) THEN Finally(h)
                                                   ELSE Sleep(h)]
    /\ UNCHANGED <<mem, stored, uuid, faults, inf, others>>

\* agent.getState() rejects (the call threw, or the reply was lost)
PollFail(ch) ==
    /\ chan[ch].pc = "polling"
    /\ call[ch].pc \in {"done", "threw"}
    /\ call' = [call EXCEPT ![ch] = IdleCall]
    /\ Catch(ch, chan[ch])
    /\ UNCHANGED <<mem, stored, uuid, faults, inf, others>>

StatusWritten(ch) ==
    /\ chan[ch].pc = "w_status"
    /\ IF chan[ch].w
         THEN chan' = [chan EXCEPT ![ch] =
                         IF IsTerminal(chan[ch].st) THEN Finally(chan[ch])
                                                    ELSE Sleep(chan[ch])]
         ELSE Catch(ch, chan[ch])
    /\ UNCHANGED <<mem, stored, uuid, faults, call, inf, others>>

\* await new Promise(resolve => setTimeout(resolve, 500)) has elapsed
SleepElapsed(ch, maxEvents) ==
    /\ chan[ch].pc = "sleep"
    /\ Len(chan[ch].events) < maxEvents
    /\ LoopIter(ch, chan[ch])
    /\ UNCHANGED <<mem, stored, uuid, faults, inf, others>>

SleepDone(ch) == SleepElapsed(ch, MaxEvents)

\* the error swallowed: the handler goes back to waiting for the next poll
ErrorWrittenResuming(ch) ==
    /\ chan[ch].pc = "w_error"
    /\ chan' = [chan EXCEPT ![ch] = Sleep(chan[ch])]
    /\ UNCHANGED <<mem, stored, uuid, faults, call, inf, others>>

ErrorWritten(ch) ==
    /\ chan[ch].pc = "w_error"
    /\ chan' = [chan EXCEPT ![ch] = Finally(chan[ch])]
    /\ UNCHANGED <<mem, stored, uuid, faults, call, inf, others>>

\* the heartbeat written only between polls, never while the loop is waiting
HeartbeatBetweenPolls(ch, maxEvents, maxHeartbeats) ==
    /\ chan[ch].timer
    /\ chan[ch].hb = "none"
    /\ chan[ch].isActive
    /\ chan[ch].pc # "sleep"
    /\ Len(chan[ch].events) < maxEvents
    /\ Len(SelectSeq(chan[ch].events, IsHeartbeat)) < maxHeartbeats
    /\ \E ok \in BOOLEAN :
          chan' = [chan EXCEPT ![ch].hb = IF ok THEN "ok" ELSE "err",
                               ![ch].events = IF ok THEN Append(@, HeartbeatEvent) ELSE @]
    /\ UNCHANGED <<mem, stored, uuid, faults, call, inf, others>>

\* setInterval callback: if (!isActive) return; try { await writeSSE(heartbeat) }
Heartbeat(ch, maxEvents, maxHeartbeats) ==
    /\ chan[ch].timer
    /\ chan[ch].hb = "none"
    /\ chan[ch].isActive
    /\ Len(chan[ch].events) < maxEvents
    /\ Len(SelectSeq(chan[ch].events, IsHeartbeat)) < maxHeartbeats
    /\ \E ok \in BOOLEAN :
          chan' = [chan EXCEPT ![ch].hb = IF ok THEN "ok" ELSE "err",
                               ![ch].events = IF ok THEN Append(@, HeartbeatEvent) ELSE @]
    /\ UNCHANGED <<mem, stored, uuid, faults, call, inf, others>>

HeartbeatTick(ch) == Heartbeat(ch, MaxEvents, MaxHeartbeats)

\* ... catch { isActive = false }
HeartbeatDone(ch) ==
    /\ chan[ch].hb # "none"
    /\ chan' = [chan EXCEPT ![ch].hb = "none",
                            ![ch].isActive = IF chan[ch].hb = "err" THEN FALSE ELSE @]
    /\ UNCHANGED <<mem, stored, uuid, faults, call, inf, others>>

\* ---- phase generation: generatePhase, withRetry, callAI -------------------
\* const providers = [ { name: 'google', ... }, { name: 'anthropic', ... } ]
Providers == <<"google", "anthropic">>

\* what a rejected call is rejected with; "null" is no error
ErrorKinds == {"503", "timeout", "401"}

\* the classification a caller's shouldRetry implements: 5xx and timeouts are
\* worth another attempt, a bad request or an auth failure is not
IsRecoverable(error) == error \in {"503", "timeout"}

\* values a wrapped operation may resolve with
Values == {"v1", "v2"}

\* withRetry(..., { maxAttempts: 3, backoffMs: 1000 }) in generatePhase
PhaseMaxAttempts == 3
PhaseBackoffMs == 1000
\* const { ..., maxBackoffMs = 30000, ... } = options
DefaultMaxBackoffMs == 30000

\* backoffMs values withRetry is called with directly
BackoffChoices == {1000, 16000}

IdleInf == [pc |-> "idle", site |-> "-", maxAttempts |-> 0, backoffMs |-> 0,
            shouldRetry |-> FALSE, attempt |-> 0, provider |-> 0,
            lastError |-> "null", calls |-> <<>>, delays |-> <<>>,
            emitted |-> <<>>, cancelled |-> 0, ret |-> "null", err |-> "null",
            cause |-> "null"]

\* a call of fn (or of generateText inside it) that has settled
Outcome(attempt, target, ok, val) ==
    [attempt |-> attempt, target |-> target, ok |-> ok, val |-> val]

\* Math.pow(2, n)
RECURSIVE Pow2(_)
Pow2(n) == IF n = 0 THEN 1 ELSE 2 * Pow2(n - 1)

\* the cap forgotten
DelayUncapped(backoffMs, attempt, maxBackoffMs) == backoffMs * Pow2(attempt - 1)

\* Math.min(backoffMs * Math.pow(2, attempt - 1), maxBackoffMs)
Delay(backoffMs, attempt, maxBackoffMs) ==
    LET d == backoffMs * Pow2(attempt - 1)
    IN  IF d < maxBackoffMs THEN d ELSE maxBackoffMs

\* executePhaseGeneration(phase, context): one inference call through callAI,
\* which issues generateText for the first provider
executePhaseGeneration(h) == [h EXCEPT !.pc = "gen", !.provider = 1]

\* fn() is invoked: the phase's generation, or a direct caller's operation
InvokeFn(h) ==
    IF h.site = "generatePhase"
      THEN executePhaseGeneration(h)
      ELSE [h EXCEPT !.pc = "fn"]

\* an error leaves withRetry: generatePhase catches it, logs and awaits
\* emitEvent({ type: 'phase_failed', ... }); a direct caller receives it
Throw(h, error) ==
    IF h.site = "generatePhase"
      THEN [h EXCEPT !.pc = "emit",
                     !.emitted = Append(@, [type |-> "phase_failed", error |-> error]),
                     !.cause = error]
      ELSE [h EXCEPT !.pc = "threw", !.err = error]

\* fn() resolved: return await fn()
Return(h, val) == [h EXCEPT !.pc = "returned", !.ret = val]

\* if (shouldRetry && !shouldRetry(error)) throw error
ShouldGiveUp(h, error) == h.shouldRetry /\ ~IsRecoverable(error)

\* one attempt too many
HasAttemptsLeftInclusive(h) == h.attempt <= h.maxAttempts

\* if (attempt < maxAttempts)
HasAttemptsLeft(h) == h.attempt < h.maxAttempts

\* withRetry's catch block, up to its next await or its exit
Caught(h, error) ==
    LET g == [h EXCEPT !.lastError = error]
    IN  IF ShouldGiveUp(g, error)
          THEN Throw(g, error)
          ELSE IF HasAttemptsLeft(g)
                 THEN [g EXCEPT !.pc = "sleep",
                                !.delays = Append(@, Delay(g.backoffMs, g.attempt,
                                                           DefaultMaxBackoffMs))]
                 ELSE Throw(g, g.lastError)

\* generatePhase(phase, context) up to its first await
generatePhase ==
    /\ inf.pc = "idle"
    /\ inf' = InvokeFn([inf EXCEPT !.site = "generatePhase",
                                   !.maxAttempts = PhaseMaxAttempts,
                                   !.backoffMs = PhaseBackoffMs,
                                   !.shouldRetry = FALSE,
                                   !.attempt = 1])
    /\ UNCHANGED <<mem, stored, uuid, faults, call, chan, others>>

\* withRetry(fn, options) called on an operation of the caller's, up to its first await
withRetry(maxAttempts, backoffMs, shouldRetry) ==
    /\ inf.pc = "idle"
    /\ LET h == [inf EXCEPT !.site = "withRetry",
                            !.maxAttempts = maxAttempts,
                            !.backoffMs = backoffMs,
                            !.shouldRetry = shouldRetry]
       IN  inf' = IF 1 <= maxAttempts
                    THEN InvokeFn([h EXCEPT !.attempt = 1])
                    ELSE Throw(h, h.lastError)
    /\ UNCHANGED <<mem, stored, uuid, faults, call, chan, others>>

\* the wrapped operation settles
FnResolved(val) ==
    /\ inf.pc = "fn"
    /\ inf' = Return([inf EXCEPT !.calls = Append(@, Outcome(inf.attempt, "fn", TRUE, val))],
                     val)
    /\ UNCHANGED <<mem, stored, uuid, faults, call, chan, others>>

FnRejected(error) ==
    /\ inf.pc = "fn"
    /\ inf' = Caught([inf EXCEPT !.calls = Append(@, Outcome(inf.attempt, "fn", FALSE, error))],
                     error)
    /\ UNCHANGED <<mem, stored, uuid, faults, call, chan, others>>

\* the loop left at the first failure
HasNextProviderNever(h) == FALSE

\* for (const provider of providers): a provider is left to try
HasNextProvider(h) == h.provider < Len(Providers)

\* callAI: generateText resolved: return result.text, which ends fn and withRetry
GenerateTextResolved ==
    /\ inf.pc = "gen"
    /\ LET name == Providers[inf.provider]
       IN  inf' = Return([inf EXCEPT !.calls = Append(@, Outcome(inf.attempt, name, TRUE, name)),
                                     !.provider = 0],
                         name)
    /\ UNCHANGED <<mem, stored, uuid, faults, call, chan, others>>

\* callAI: generateText rejected: lastError = error and the loop goes on to the
\* next provider; after the last one callAI throws lastError into withRetry
GenerateTextRejected(error) ==
    /\ inf.pc = "gen"
    /\ LET name == Providers[inf.provider]
           h == [inf EXCEPT !.calls = Append(@, Outcome(inf.attempt, name, FALSE, error))]
       IN  inf' = IF HasNextProvider(inf)
                    THEN [h EXCEPT !.provider = inf.provider + 1]
                    ELSE Caught([h EXCEPT !.provider = 0], error)
    /\ UNCHANGED <<mem, stored, uuid, faults, call, chan, others>>

\* await new Promise(resolve => setTimeout(resolve, delay)) has elapsed: attempt++
BackoffElapsed ==
    /\ inf.pc = "sleep"
    /\ inf' = InvokeFn([inf EXCEPT !.attempt = inf.attempt + 1])
    /\ UNCHANGED <<mem, stored, uuid, faults, call, chan, others>>

\* generatePhase's catch: emitEvent settled; throw new PhaseGenerationError(phase.id, error)
\* (a rejected emitEvent leaves the catch block with its own error instead)
EmitSettled(ok) ==
    /\ inf.pc = "emit"
    /\ inf' = [inf EXCEPT !.pc = "threw",
                          !.err = IF ok THEN "PhaseGenerationError" ELSE "EmitError",
                          !.cause = IF ok THEN @ ELSE "null"]
    /\ UNCHANGED <<mem, stored, uuid, faults, call, chan, others>>

\* context.abortSignal is aborted while a call is in flight; cancelled records
\* the position of that call in the history (0: no signal)
Cancel ==
    /\ inf.pc \in {"gen", "fn"}
    /\ inf.cancelled = 0
    /\ inf' = [inf EXCEPT !.cancelled = Len(inf.calls) + 1]
    /\ UNCHANGED <<mem, stored, uuid, faults, call, chan, others>>

\* ---- provider credential lookup: getConfigurationForModel, getApiKey --------
\* models a request may name, '<provider>/<model>'
Models == {"anthropic/claude-3-5-sonnet-latest", "google-ai-studio/gemini-2.5-pro"}

\* model.split('/')[0]
ProviderOf(model) ==
    CASE model = "anthropic/claude-3-5-sonnet-latest" -> "anthropic"
      [] model = "google-ai-studio/gemini-2.5-pro"    -> "google-ai-studio"

\* `${provider.toUpperCase().replaceAll('-', '_')}_API_KEY`
EnvKey(provider) ==
    CASE provider = "anthropic"        -> "ANTHROPIC_API_KEY"
      [] provider = "google-ai-studio" -> "GOOGLE_AI_STUDIO_API_KEY"

EnvKeys == {"ANTHROPIC_API_KEY", "GOOGLE_AI_STUDIO_API_KEY"}

\* what an environment variable may hold; "" is an unset variable
KeyValues == {"", "none", "default", "sk-short", "sk-ant-0123456789"}
GatewayTokens == {"", "aig-token-0123456789"}

\* API key passes validation (length >= 10, not "none" or "default")
MinKeyLength == 10

isValidApiKey(apiKey) ==
    /\ Len(apiKey) >= MinKeyLength
    /\ apiKey \notin {"none", "default"}

IdleKeys(env, token) ==
    [pc |-> "idle", env |-> env, token |-> token, provider |-> "-",
     apiKey |-> "", error |-> "null", requests |-> <<>>]

\* getApiKey(provider, env, userId)
getApiKey(provider, env, token) ==
    LET apiKey == env[EnvKey(provider)]
    IN  IF ~isValidApiKey(apiKey) THEN token ELSE apiKey

\* getConfigurationForModel up to `await getApiKey(provider, env, userId)`
getConfigurationForModel(model) ==
    /\ keys.pc = "idle"
    /\ keys' = [keys EXCEPT !.pc = "get_key", !.provider = ProviderOf(model)]
    /\ UNCHANGED <<mem, stored, uuid, faults, call, chan, inf, tmpl, agents, upload>>

\* getApiKey resolves; getConfigurationForModel returns { baseURL, apiKey }
ApiKeyResolved ==
    /\ keys.pc = "get_key"
    /\ keys' = [keys EXCEPT !.pc = "configured",
                            !.apiKey = getApiKey(keys.provider, keys.env, keys.token)]
    /\ UNCHANGED <<mem, stored, uuid, faults, call, chan, inf, tmpl, agents, upload>>

\* the request is routed through the AI Gateway with the resolved key
RequestSent ==
    /\ keys.pc = "configured"
    /\ keys' = [keys EXCEPT !.pc = "sent",
                            !.requests = Append(@, [provider |-> keys.provider,
                                                    apiKey |-> keys.apiKey])]
    /\ UNCHANGED <<mem, stored, uuid, faults, call, chan, inf, tmpl, agents, upload>>

\* ---- template selection: getTemplateForQuery ---------------------------------
TemplateNames == {"t1", "t2", "t3"}

\* what SandboxSdkClient.listTemplates() may settle with
ListReplies ==
    {[kind |-> k, templates |-> {}] : k \in {"throws", "undefined", "failure", "malformed"}}
      \cup {[kind |-> "success", templates |-> c] : c \in SUBSET TemplateNames}

\* selectedTemplateName values selectTemplate may resolve with ("" is null or empty)
SelectedNames == TemplateNames \cup {"", "unknown"}

\* what selectTemplate() may settle with
SelectReplies ==
    {[kind |-> "throws", selectedTemplateName |-> ""]}
      \cup {[kind |-> "selection", selectedTemplateName |-> n] : n \in SelectedNames}

\* what BaseSandboxService.getTemplateDetails() may settle with
DetailsReplies == {"throws", "failure", "no_details", "details"}

IdleTmpl == [pc |-> "idle", list |-> [kind |-> "-", templates |-> {}],
             selection |-> [kind |-> "-", selectedTemplateName |-> ""],
             details |-> "-", calls |-> <<>>, ret |-> "-", err |-> "null"]

TmplThrow(h, error) == [h EXCEPT !.pc = "threw", !.err = error]

\* getTemplateForQuery up to `await SandboxSdkClient.listTemplates()`
getTemplateForQuery ==
    /\ tmpl.pc = "idle"
    /\ tmpl' = [tmpl EXCEPT !.pc = "list", !.calls = Append(@, <<"listTemplates">>)]
    /\ UNCHANGED <<mem, stored, uuid, faults, call, chan, inf, keys, agents, upload>>

\* the emptiness test left out
IsEmptyCatalogNever(templates) == FALSE

\* if (templatesResponse.templates.length === 0)
IsEmptyCatalog(templates) == templates = {}

\* listTemplates settled: the three checks, then `await selectTemplate(...)`
ListSettled(reply) ==
    /\ tmpl.pc = "list"
    /\ LET h == [tmpl EXCEPT !.list = reply]
       IN  tmpl' =
             CASE reply.kind = "throws" -> TmplThrow(h, "Template service unavailable")
               [] reply.kind \in {"undefined", "failure"}
                    -> TmplThrow(h, "Failed to fetch templates from template service")
               [] reply.kind = "malformed" -> TmplThrow(h, "TypeError")
               [] OTHER ->
                    IF IsEmptyCatalog(reply.templates)
                      THEN TmplThrow(h, "No templates available in the template catalog")
                      ELSE [h EXCEPT !.pc = "select",
                                     !.calls = Append(@, <<"selectTemplate">>)]
    /\ UNCHANGED <<mem, stored, uuid, faults, call, chan, inf, keys, agents, upload>>

\* templatesResponse.templates.find(template => template.name === name)
FindTemplate(templates, name) == name \in templates

\* selectTemplate settled: the two checks, then `await getTemplateDetails(selectedTemplate.name)`
SelectSettled(reply) ==
    /\ tmpl.pc = "select"
    /\ LET h == [tmpl EXCEPT !.selection = reply]
           name == reply.selectedTemplateName
       IN  tmpl' =
             IF reply.kind = "throws" THEN TmplThrow(h, "selectTemplate error")
             ELSE IF name = "" THEN TmplThrow(h, "No suitable template found")
             ELSE IF ~FindTemplate(tmpl.list.templates, name)
               THEN TmplThrow(h, "Selected template not found in available templates")
             ELSE [h EXCEPT !.pc = "details",
                            !.calls = Append(@, <<"getTemplateDetails", name>>)]
    /\ UNCHANGED <<mem, stored, uuid, faults, call, chan, inf, keys, agents, upload>>

\* getTemplateDetails settled: return { templateDetails, selection } or throw
DetailsSettled(reply) ==
    /\ tmpl.pc = "details"
    /\ LET h == [tmpl EXCEPT !.details = reply]
       IN  tmpl' =
             CASE reply = "throws" -> TmplThrow(h, "Template service error")
               [] reply \in {"failure", "no_details"}
                    -> TmplThrow(h, "Failed to fetch template files")
               [] OTHER -> [h EXCEPT !.pc = "returned",
                                     !.ret = tmpl.selection.selectedTemplateName]
    /\ UNCHANGED <<mem, stored, uuid, faults, call, chan, inf, keys, agents, upload>>

\* ---- cloning a session: cloneAgent -------------------------------------------
\* the agent to clone, and the ids generateId() hands out
AgentIds == {"src", "new1"}

\* generateId(): an id no agent has yet
generateId == "new1"

\* the state of an agent on which initialize was never run
Uninitialized == [sessionId |-> "-"]

\* CodeGenState values of an initialised agent with session id `id`
CodeGenStates(id) ==
    [sessionId : {id}, query : {"q1", "q2"}, sandboxInstanceId : {"undefined", "sb1"},
     pendingUserInputs : {<<>>, <<"u1">>}, currentDevState : {0, 2},
     generationPromise : {"undefined", "promise"}, shouldBeGenerating : BOOLEAN,
     clientReportedErrors : {<<>>, <<"e1">>}]

IdleAgents(sourceState) ==
    [pc |-> "idle", states |-> [a \in AgentIds |->
                                  IF a = "src" THEN sourceState ELSE Uninitialized],
     agentId |-> "-", initialized |-> FALSE, newAgentId |-> "-",
     originalState |-> Uninitialized, worked |-> FALSE, err |-> "null"]

\* the clone left generating like its source
NewStateStillGenerating(originalState, newAgentId) ==
    [originalState EXCEPT !.sessionId = newAgentId,
                          !.sandboxInstanceId = "undefined",
                          !.pendingUserInputs = <<>>,
                          !.currentDevState = 0,
                          !.generationPromise = "undefined",
                          !.clientReportedErrors = <<>>]

\* const newState = { ...originalState, sessionId: newAgentId, ... }
NewState(originalState, newAgentId) ==
    [originalState EXCEPT !.sessionId = newAgentId,
                          !.sandboxInstanceId = "undefined",
                          !.pendingUserInputs = <<>>,
                          !.currentDevState = 0,
                          !.generationPromise = "undefined",
                          !.shouldBeGenerating = FALSE,
                          !.clientReportedErrors = <<>>]

\* cloneAgent(env, agentId) up to `await agentInstance.isInitialized()`
cloneAgent(agentId) ==
    /\ agents.pc = "idle"
    /\ agents' = [agents EXCEPT !.pc = "is_initialized", !.agentId = agentId,
                                !.initialized = agents.states[agentId] # Uninitialized]
    /\ UNCHANGED <<mem, stored, uuid, faults, call, chan, inf, keys, tmpl, upload>>

\* isInitialized() resolved: throw, or generateId() and `await getAgentStub(env, newAgentId)`
InitializedChecked ==
    /\ agents.pc = "is_initialized"
    /\ agents' = IF ~agents.initialized
                   THEN [agents EXCEPT !.pc = "threw", !.err = "Agent not found"]
                   ELSE [agents EXCEPT !.pc = "new_stub", !.newAgentId = generateId]
    /\ UNCHANGED <<mem, stored, uuid, faults, call, chan, inf, keys, tmpl, upload>>

\* the new stub is there: `await agentInstance.getFullState()` reads the source
NewStubReady ==
    /\ agents.pc = "new_stub"
    /\ agents' = [agents EXCEPT !.pc = "full_state",
                                !.originalState = agents.states[agents.agentId]]
    /\ UNCHANGED <<mem, stored, uuid, faults, call, chan, inf, keys, tmpl, upload>>

\* getFullState() resolved: `await newAgent.setState(newState)` stores or rejects
FullStateRead ==
    /\ agents.pc = "full_state"
    /\ \E ok \in BOOLEAN :
          agents' = [agents EXCEPT
                       !.pc = IF ok THEN "set_state" ELSE "set_failed",
                       !.states[agents.newAgentId] =
                           IF ok THEN NewState(agents.originalState, agents.newAgentId)
                                 ELSE @]
    /\ UNCHANGED <<mem, stored, uuid, faults, call, chan, inf, keys, tmpl, upload>>

\* setState settled: return { newAgentId, newAgent } or throw
SetStateSettled ==
    /\ agents.pc \in {"set_state", "set_failed"}
    /\ agents' = IF agents.pc = "set_state"
                   THEN [agents EXCEPT !.pc = "returned"]
                   ELSE [agents EXCEPT !.pc = "threw", !.err = "setState failed"]
    /\ UNCHANGED <<mem, stored, uuid, faults, call, chan, inf, keys, tmpl, upload>>

\* the source agent goes on with its own work while it is being cloned
SourceWorks ==
    /\ agents.pc \notin {"idle", "returned", "threw"}
    /\ agents.states[agents.agentId] # Uninitialized
    /\ ~agents.worked
    /\ agents' = [agents EXCEPT !.worked = TRUE,
                                !.states[agents.agentId].shouldBeGenerating = TRUE,
                                !.states[agents.agentId].currentDevState = 2,
                                !.states[agents.agentId].pendingUserInputs = <<"u1", "u2">>]
    /\ UNCHANGED <<mem, stored, uuid, faults, call, chan, inf, keys, tmpl, upload>>

\* ---- the attachment list: useFileUpload ----------------------------------------
\* files in one addFiles call, and attachments plus files being read at a time
MaxBatch == 2
MaxList == 4

MAX_IMAGES_PER_MESSAGE == 2
MAX_CODE_FILES_PER_MESSAGE == 10
MAX_ARCHIVES_PER_MESSAGE == 1

\* addFiles calls that can be reading files at the same time
Calls == {1, 2}

\* what a File is by its mime type; "other" is no supported type
FileKinds == {"image", "code", "archive", "other"}

\* the batches a caller can pass to addFiles
Batches == UNION {[1..n -> FileKinds] : n \in 1..MaxBatch}

IdleUpload ==
    [files |-> <<>>, pending |-> [c \in Calls |-> <<>>], isProcessing |-> FALSE,
     err |-> "null"]

\* seq.filter(f => f in kinds).length
CountOf(seq, kinds) == Cardinality({i \in DOMAIN seq : seq[i] \in kinds})

\* what processFile makes of a file: an attachment, null, or a rejection.  An
\* image whose dimensions cannot be loaded resolves without `dimensions`.
Processed(kind) ==
    CASE kind = "image"   -> {"image", "imageNoDims", "null", "reject"}
      [] kind = "code"    -> {"code", "null", "reject"}
      [] kind = "archive" -> {"archive", "null", "reject"}
      [] OTHER            -> {"null"}

\* processedFiles.filter(f => f !== null)
RECURSIVE ValidFiles(_)
ValidFiles(seq) ==
    IF seq = <<>> THEN <<>>
    ELSE IF Head(seq) = "null" THEN ValidFiles(Tail(seq))
                               ELSE <<Head(seq)>> \o ValidFiles(Tail(seq))

\* the limit addFiles finds exceeded for a batch against the list it closed over
LimitExceeded(files, newFiles) ==
    LET currentImages    == CountOf(files, {"image"})
        currentCodeFiles == CountOf(files, {"code"})
        currentArchives  == CountOf(files, {"archive"})
        newImages        == CountOf(newFiles, {"image"})
        newCodeFiles     == CountOf(newFiles, {"code"})
        newArchives      == CountOf(newFiles, {"archive"})
    IN  CASE currentImages + newImages > MAX_IMAGES_PER_MESSAGE -> "images"
          [] currentCodeFiles + newCodeFiles > MAX_CODE_FILES_PER_MESSAGE -> "code files"
          [] currentArchives + newArchives > MAX_ARCHIVES_PER_MESSAGE -> "archives"
          [] OTHER -> "null"

\* addFiles(newFiles) up to `await Promise.all(...)`, or to its return when a
\* limit is exceeded
addFiles(c, newFiles) ==
    /\ upload.pending[c] = <<>>
    /\ Len(upload.files) + Len(upload.pending[1]) + Len(upload.pending[2])
          + Len(newFiles) <= MaxList
    /\ LET exceeded == LimitExceeded(upload.files, newFiles)
       IN  upload' = IF exceeded # "null"
                       THEN [upload EXCEPT !.err = exceeded, !.isProcessing = FALSE]
                       ELSE [upload EXCEPT !.pending[c] = newFiles,
                                           !.isProcessing = TRUE]
    /\ UNCHANGED <<mem, stored, uuid, faults, call, chan, inf, keys, tmpl, agents>>

\* Promise.all settled: setFiles(prev => [...prev, ...validFiles]), or the catch
ProcessSettled(c) ==
    /\ upload.pending[c] # <<>>
    /\ \E processedFiles \in [DOMAIN upload.pending[c] -> {"image", "imageNoDims",
                                 "code", "archive", "null", "reject"}] :
          /\ \A i \in DOMAIN processedFiles :
                processedFiles[i] \in Processed(upload.pending[c][i])
          /\ upload' =
               IF \E i \in DOMAIN processedFiles : processedFiles[i] = "reject"
                 THEN [upload EXCEPT !.pending[c] = <<>>, !.err = "failed",
                                     !.isProcessing = FALSE]
                 ELSE [upload EXCEPT !.pending[c] = <<>>, !.isProcessing = FALSE,
                                     !.files = @ \o ValidFiles(processedFiles)]
    /\ UNCHANGED <<mem, stored, uuid, faults, call, chan, inf, keys, tmpl, agents>>

\* removeFile(id), for the id of the i-th attachment
removeFile(i) ==
    /\ i \in DOMAIN upload.files
    /\ upload' = [upload EXCEPT !.files =
                     SubSeq(upload.files, 1, i - 1)
                        \o SubSeq(upload.files, i + 1, Len(upload.files))]
    /\ UNCHANGED <<mem, stored, uuid, faults, call, chan, inf, keys, tmpl, agents>>

\* clearFiles()
clearFiles ==
    /\ upload' = [upload EXCEPT !.files = <<>>]
    /\ UNCHANGED <<mem, stored, uuid, faults, call, chan, inf, keys, tmpl, agents>>

\* ---- components at rest ---------------------------------------------------
IdleAgents0 == IdleAgents(Uninitialized)

OthersIdle ==
    /\ keys = IdleKeys([k \in EnvKeys |-> ""], "")
    /\ tmpl = IdleTmpl
    /\ agents = IdleAgents0
    /\ upload = IdleUpload

\* ---- specification --------------------------------------------------------
Init ==
    /\ mem = NoState
    /\ stored = NoState
    /\ uuid = 0
    /\ faults = FALSE
    /\ call = [s \in Slots |-> IdleCall]
    /\ chan = [ch \in Chans |-> InitChan]
    /\ inf = IdleInf
    /\ OthersIdle

\* one caller at a time (the session's actor serialises its requests)
Driver == {"a"}

Next ==
    \/ \E s \in Driver, totalPhases \in 1..MaxPhases : startGeneration(s, totalPhases)
    \/ \E s \in Driver : advancePhase(s)
    \/ \E s \in Driver, error \in Errors : failGeneration(s, error)
    \/ \E s \in Driver : getState(s)
    \/ \E s \in Driver : LoadGetDone(s)
    \/ \E s \in Driver : LoadPutDone(s)
    \/ \E s \in Driver : LoadResolved(s)
    \/ \E s \in Driver : UpdPutDone(s)
    \/ \E s \in Driver : Release(s)
    \/ Restart

Spec == Init /\ [][Next]_vars

\* calls of several callers overlapping at their await points
ConcurrentNext ==
    \/ \E s \in Clients, totalPhases \in 1..MaxPhases : startGeneration(s, totalPhases)
    \/ \E s \in Clients : advancePhase(s)
    \/ \E s \in Clients, error \in Errors : failGeneration(s, error)
    \/ \E s \in Clients : getState(s)
    \/ \E s \in Clients : LoadGetDone(s)
    \/ \E s \in Clients : LoadPutDone(s)
    \/ \E s \in Clients : LoadResolved(s)
    \/ \E s \in Clients : UpdPutDone(s)
    \/ \E s \in Clients : Release(s)
    \/ Restart

SpecConcurrent == Init /\ [][ConcurrentNext]_vars

\* one caller at a time, on storage whose writes may fail
InitFault ==
    /\ mem = NoState
    /\ stored = NoState
    /\ uuid = 0
    /\ faults = TRUE
    /\ call = [s \in Slots |-> IdleCall]
    /\ chan = [ch \in Chans |-> InitChan]
    /\ inf = IdleInf
    /\ OthersIdle

SpecFault == InitFault /\ [][Next]_vars

\* a subscriber channel streaming a session that an earlier request created,
\* while one caller drives the session
InitStream ==
    /\ mem = NoState
    /\ stored = FreshState(1)
    /\ uuid = 1
    /\ faults = FALSE
    /\ call = [s \in Slots |-> IdleCall]
    /\ chan = [ch \in Chans |-> InitChan]
    /\ inf = IdleInf
    /\ OthersIdle

StreamNext ==
    \/ \E s \in Driver, totalPhases \in 1..MaxPhases : startGeneration(s, totalPhases)
    \/ \E s \in Driver : advancePhase(s)
    \/ \E s \in Driver, error \in Errors : failGeneration(s, error)
    \/ \E s \in Slots : LoadGetDone(s)
    \/ \E s \in Slots : LoadResolved(s)
    \/ \E s \in Slots : UpdPutDone(s)
    \/ \E s \in Driver : Release(s)
    \/ \E ch \in Chans : StreamOpen(ch)
    \/ \E ch \in Chans : ConnectedWritten(ch)
    \/ \E ch \in Chans : PollDone(ch)
    \/ \E ch \in Chans : PollFail(ch)
    \/ \E ch \in Chans : StatusWritten(ch)
    \/ \E ch \in Chans : SleepDone(ch)
    \/ \E ch \in Chans : ErrorWritten(ch)
    \/ \E ch \in Chans : HeartbeatTick(ch)
    \/ \E ch \in Chans : HeartbeatDone(ch)

SpecStream == InitStream /\ [][StreamNext]_vars

\* a subscriber channel streaming a session whose status nobody changes, for
\* QuietHeartbeats heartbeat intervals
QuietSleepDone(ch) == SleepElapsed(ch, QuietEvents)

QuietHeartbeatTick(ch) == Heartbeat(ch, QuietEvents, QuietHeartbeats)

QuietNext ==
    \/ \E s \in Chans : LoadGetDone(s)
    \/ \E s \in Chans : LoadResolved(s)
    \/ \E ch \in Chans : StreamOpen(ch)
    \/ \E ch \in Chans : ConnectedWritten(ch)
    \/ \E ch \in Chans : PollDone(ch)
    \/ \E ch \in Chans : PollFail(ch)
    \/ \E ch \in Chans : StatusWritten(ch)
    \/ \E ch \in Chans : QuietSleepDone(ch)
    \/ \E ch \in Chans : ErrorWritten(ch)
    \/ \E ch \in Chans : QuietHeartbeatTick(ch)
    \/ \E ch \in Chans : HeartbeatDone(ch)

SpecQuiet == InitStream /\ [][QuietNext]_vars

\* a run in which every phase succeeds: the session is started once with a plan
\* of PlanPhases phases and advancePhase is called once per phase, while a
\* subscriber channel streams it (the run is shorter than a heartbeat interval);
\* the agent holds the session's state in memory from the start
InitPlan ==
    /\ mem = FreshState(1)
    /\ stored = FreshState(1)
    /\ uuid = 1
    /\ faults = FALSE
    /\ call = [s \in Slots |-> IdleCall]
    /\ chan = [ch \in Chans |-> InitChan]
    /\ inf = IdleInf
    /\ OthersIdle

CurrentState == IF mem # NoState THEN mem ELSE stored

PlanStart(s) ==
    /\ CurrentState.status = "idle"
    /\ startGeneration(s, PlanPhases)

PlanAdvance(s) ==
    /\ CurrentState.status \in {"bootstrapping", "generating"}
    /\ call[s].pc = "idle"
    /\ call' = [call EXCEPT ![s] =
                  LoadCall([IdleCall EXCEPT !.op = "advancePhase"], "ap")]
    /\ UNCHANGED <<mem, stored, uuid, faults, chan, inf, others>>

PlanSleepDone(ch) == SleepElapsed(ch, PlanEvents)

PlanNext ==
    \/ \E s \in Driver : PlanStart(s)
    \/ \E s \in Driver : PlanAdvance(s)
    \/ \E s \in Slots : LoadResolved(s)
    \/ \E s \in Slots : UpdPutDone(s)
    \/ \E s \in Driver : Release(s)
    \/ \E ch \in Chans : StreamOpen(ch)
    \/ \E ch \in Chans : ConnectedWritten(ch)
    \/ \E ch \in Chans : PollDone(ch)
    \/ \E ch \in Chans : PollFail(ch)
    \/ \E ch \in Chans : StatusWritten(ch)
    \/ \E ch \in Chans : PlanSleepDone(ch)
    \/ \E ch \in Chans : ErrorWritten(ch)

SpecPlan == InitPlan /\ [][PlanNext]_vars

\* the same run, in which a phase may also fail, with the scheduling the
\* runtime guarantees: a settled promise's continuation runs, the agent answers
\* a getState call, and the 500 ms timer of the poll loop fires
PlanFail(s) ==
    /\ CurrentState.status \in {"bootstrapping", "generating"}
    /\ \E error \in Errors : failGeneration(s, error)

LiveNext ==
    \/ PlanNext
    \/ \E s \in Driver : PlanFail(s)

HandlerStep(ch) ==
    \/ ConnectedWritten(ch)
    \/ PollDone(ch)
    \/ StatusWritten(ch)
    \/ PlanSleepDone(ch)

SpecLive ==
    /\ InitPlan
    /\ [][LiveNext]_vars
    /\ WF_vars(\E ch \in Chans : LoadResolved(ch))
    /\ WF_vars(\E ch \in Chans : HandlerStep(ch))

\* everything but the named component at rest
AgentIdle ==
    /\ mem = NoState
    /\ stored = NoState
    /\ uuid = 0
    /\ faults = FALSE
    /\ call = [s \in Slots |-> IdleCall]
    /\ chan = [ch \in Chans |-> InitChan]
    /\ inf = IdleInf

\* one credential lookup and request, in any environment
InitKeys ==
    /\ AgentIdle
    /\ keys \in {IdleKeys(env, token) : env \in [EnvKeys -> KeyValues],
                                        token \in GatewayTokens}
    /\ tmpl = IdleTmpl
    /\ agents = IdleAgents0
    /\ upload = IdleUpload

KeysNext ==
    \/ \E model \in Models : getConfigurationForModel(model)
    \/ ApiKeyResolved
    \/ RequestSent

SpecKeys == InitKeys /\ [][KeysNext]_vars

\* one getTemplateForQuery call against any replies of the services
InitTmpl ==
    /\ AgentIdle
    /\ keys = IdleKeys([k \in EnvKeys |-> ""], "")
    /\ tmpl = IdleTmpl
    /\ agents = IdleAgents0
    /\ upload = IdleUpload

TmplNext ==
    \/ getTemplateForQuery
    \/ \E reply \in ListReplies : ListSettled(reply)
    \/ \E reply \in SelectReplies : SelectSettled(reply)
    \/ \E reply \in DetailsReplies : DetailsSettled(reply)

SpecTmpl == InitTmpl /\ [][TmplNext]_vars

\* one cloneAgent call on a source agent in any state, initialised or not
InitClone ==
    /\ AgentIdle
    /\ keys = IdleKeys([k \in EnvKeys |-> ""], "")
    /\ tmpl = IdleTmpl
    /\ agents \in {IdleAgents(st) : st \in CodeGenStates("src") \cup {Uninitialized}}
    /\ upload = IdleUpload

CloneNext ==
    \/ cloneAgent("src")
    \/ InitializedChecked
    \/ NewStubReady
    \/ FullStateRead
    \/ SetStateSettled
    \/ SourceWorks

SpecClone == InitClone /\ [][CloneNext]_vars

\* the hook as mounted: no attachments, nothing being read
InitUpload ==
    /\ AgentIdle
    /\ keys = IdleKeys([k \in EnvKeys |-> ""], "")
    /\ tmpl = IdleTmpl
    /\ agents = IdleAgents0
    /\ upload = IdleUpload

UploadNext ==
    \/ \E c \in Calls, newFiles \in Batches : addFiles(c, newFiles)
    \/ \E c \in Calls : ProcessSettled(c)
    \/ \E i \in 1..MaxList : removeFile(i)
    \/ clearFiles

SpecUpload == InitUpload /\ [][UploadNext]_vars

\* one phase generation, or one direct use of withRetry, at a time
InferNext ==
    \/ generatePhase
    \/ \E maxAttempts \in 0..MaxAttempts, backoffMs \in BackoffChoices,
          shouldRetry \in BOOLEAN : withRetry(maxAttempts, backoffMs, shouldRetry)
    \/ \E val \in Values : FnResolved(val)
    \/ \E error \in ErrorKinds : FnRejected(error)
    \/ GenerateTextResolved
    \/ \E error \in ErrorKinds : GenerateTextRejected(error)
    \/ BackoffElapsed
    \/ \E ok \in BOOLEAN : EmitSettled(ok)
    \/ Cancel

SpecInfer == Init /\ [][InferNext]_vars

\* ---- properties ------------------------------------------------------------
\* slot s takes the step in which updateState assigns this.state, and the state
\* it merges into is the agent's current state
Writes(s, op) ==
    /\ call[s].op = op
    /\ call[s].pc = "load_hit"
    /\ call[s].fr = "us"
    /\ call[s].val = mem
    /\ call'[s].pc = "upd_put"

\* C1: once status is completed or failed, a further advancePhase() is a no-op:
\* it leaves status and currentPhase exactly as they were.
C1_AdvanceAfterTerminalIsNoOp ==
    [][\A s \in Slots :
          (Writes(s, "advancePhase") /\ call[s].state = mem /\ mem.status \in Terminal)
             => (mem'.status = mem.status /\ mem'.currentPhase = mem.currentPhase)]_vars

\* C2: the phase cursor never decreases, whatever sequence of startGeneration,
\* advancePhase and failGeneration calls is made (startGeneration resumes).
C2_CursorNeverDecreases ==
    [][(mem # NoState /\ mem' # NoState) => mem'.currentPhase >= mem.currentPhase]_vars

\* C3: in every reachable state 0 <= currentPhase <= totalPhases.
C3_CursorWithinPlan ==
    mem # NoState => (0 <= mem.currentPhase /\ mem.currentPhase <= mem.totalPhases)

\* C4: status is completed only when the cursor has reached the number of planned
\* phases, and a session that was never started cannot become completed.
C4_CompletedOnlyAtEndOfPlan ==
    mem.status = "completed" => (mem.totalPhases > 0 /\ mem.currentPhase = mem.totalPhases)

\* C5: failed is entered only from a non-terminal status and is absorbing under
\* advancePhase and failGeneration.
C5_FailedAbsorbing ==
    [][\A s \in Slots :
          (Writes(s, "advancePhase") \/ Writes(s, "failGeneration"))
             => /\ mem.status = "completed" => mem'.status # "failed"
                /\ mem.status = "failed" => mem'.status = "failed"]_vars

Min(x, y) == IF x <= y THEN x ELSE y

\* C6: two overlapping advancePhase calls lose no update: once both have assigned
\* the state, currentPhase is the value before the first call plus two.
C6_NoLostUpdate ==
    \A a, b \in Clients :
        (/\ a # b
         /\ call[a].op = "advancePhase" /\ call[a].pc = "upd_put"
         /\ call[b].op = "advancePhase" /\ call[b].pc = "upd_put")
           => mem.currentPhase
                 = Min(call[a].state.currentPhase, call[b].state.currentPhase) + 2

InFlight(s) == call[s].pc \notin {"idle", "done", "threw"}

\* C7: a call that has returned is visible to the next getState (the cached state
\* is what it returned), and whenever no call is in flight the cached state
\* equals the durably stored state.
C7_CacheEqualsStore ==
    (mem # NoState /\ stored # NoState /\ \A s \in Slots : ~InFlight(s))
       => /\ mem = stored
          /\ \A s \in Slots : call[s].pc = "done" => call[s].ret = mem

\* C8: concurrent first accesses initialise exactly one state, and all of them
\* observe the same sessionId.
C8_SingleCopyPerSession ==
    /\ uuid <= 1
    /\ \A a, b \in Slots :
          (call[a].pc = "done" /\ call[b].pc = "done")
             => call[a].ret.sessionId = call[b].ret.sessionId

StatusEvents(ch) == SelectSeq(chan[ch].events, IsStatus)

\* C9: on every channel no two consecutive status events carry the same status.
C9_NoDuplicateStatus ==
    \A ch \in Chans :
        \A i \in 1..(Len(StatusEvents(ch)) - 1) :
            StatusEvents(ch)[i].status # StatusEvents(ch)[i + 1].status

\* a poll has returned the status of the last status event, after two status events
C9_Witness ==
    \E ch \in Chans :
        /\ Len(StatusEvents(ch)) >= 2
        /\ chan[ch].pc = "polling"
        /\ call[ch].pc = "done"
        /\ call[ch].ret.status = chan[ch].lastStatus

HasTerminalStatusEvent(ch) ==
    \E i \in 1..Len(chan[ch].events) :
        IsStatus(chan[ch].events[i]) /\ chan[ch].events[i].status \in Terminal

\* C10: a polled terminal status is written as one status event, which is the last
\* status event of the channel, and the handler then closes the channel.
C10_TerminalStatusIsLast ==
    \A ch \in Chans :
        /\ \A i, j \in 1..Len(chan[ch].events) :
              (i < j /\ IsStatus(chan[ch].events[i])
                     /\ chan[ch].events[i].status \in Terminal)
                 => ~IsStatus(chan[ch].events[j])
        /\ (chan[ch].pc = "w_status" /\ chan[ch].w /\ chan[ch].st \in Terminal)
              => StatusEvents(ch)[Len(StatusEvents(ch))].status = chan[ch].st
        /\ HasTerminalStatusEvent(ch) => chan[ch].pc \in {"w_status", "closed"}

\* the handler has closed the channel after writing a terminal status event that
\* followed an earlier status event
C10_Witness ==
    \E ch \in Chans :
        /\ chan[ch].pc = "closed"
        /\ Len(StatusEvents(ch)) >= 2
        /\ StatusEvents(ch)[Len(StatusEvents(ch))].status \in Terminal

\* the heartbeat callback has caught a write error and set isActive = false,
\* and the handler has not yet run its finally block
HeartbeatFailed(ch) ==
    /\ ~chan[ch].isActive
    /\ chan[ch].pc \notin {"init", "closed"}

\* C11: once a heartbeat write has failed and the channel is marked inactive, no
\* further event of any kind is written to the channel.
C11_NoWriteAfterHeartbeatFailure ==
    [][\A ch \in Chans :
          HeartbeatFailed(ch) => chan'[ch].events = chan[ch].events]_vars

IsConnected(ev) == ev.event = "connected"
IsError(ev)     == ev.event = "error"

\* C12: on every channel the first event written is connected.
C12_ConnectedIsFirst ==
    \A ch \in Chans :
        Len(chan[ch].events) > 0 => IsConnected(chan[ch].events[1])

\* C12 (amended): a connected event is always the first event of its channel and
\* a status event is written only on a channel whose first event is connected;
\* an error or heartbeat event is first only when the connected write failed.
C12_ConnectedFirstWhenWritten ==
    \A ch \in Chans :
        \A i \in 1..Len(chan[ch].events) :
            /\ IsConnected(chan[ch].events[i]) => i = 1
            /\ IsStatus(chan[ch].events[i]) => IsConnected(chan[ch].events[1])
            /\ (i = 1 /\ ~IsConnected(chan[ch].events[i]))
                  => /\ ~IsStatus(chan[ch].events[i])
                     /\ chan[ch].pc \in {"w_connected", "w_error", "closed"}

\* a heartbeat and a status event were written after the connected event
C12_Witness ==
    \E ch \in Chans :
        /\ Len(chan[ch].events) >= 3
        /\ IsConnected(chan[ch].events[1])
        /\ \E i, j \in 2..Len(chan[ch].events) :
              IsHeartbeat(chan[ch].events[i]) /\ IsStatus(chan[ch].events[j])

\* C13: when reading the state or writing an event throws, the handler writes an
\* error event and closes; after the error event no status or heartbeat event is
\* written.
C13_NothingAfterError ==
    \A ch \in Chans :
        \A i, j \in 1..Len(chan[ch].events) :
            (i < j /\ IsError(chan[ch].events[i]))
               => ~(IsStatus(chan[ch].events[j]) \/ IsHeartbeat(chan[ch].events[j]))

\* C13 (amended): after a throw the handler issues one error write and closes
\* when it settles: at most one error event is written, no status event follows
\* it, and the handler never polls again; a heartbeat can still be written while
\* the error write is pending.
C13_ErrorThenClose ==
    \A ch \in Chans :
        /\ Len(SelectSeq(chan[ch].events, IsError)) <= 1
        /\ \A i, j \in 1..Len(chan[ch].events) :
              (i < j /\ IsError(chan[ch].events[i])) => ~IsStatus(chan[ch].events[j])
        /\ (\E i \in 1..Len(chan[ch].events) : IsError(chan[ch].events[i]))
              => chan[ch].pc \in {"w_error", "closed"}

\* the handler has closed a channel on which an error event followed a status event
C13_Witness ==
    \E ch \in Chans :
        /\ chan[ch].pc = "closed"
        /\ \E i, j \in 1..Len(chan[ch].events) :
              i < j /\ IsStatus(chan[ch].events[i]) /\ IsError(chan[ch].events[j])

\* the channel is open and every write on it has succeeded so far
Healthy(ch) ==
    /\ chan[ch].pc \in {"w_connected", "polling", "w_status", "sleep"}
    /\ chan[ch].isActive
    /\ chan[ch].w
    /\ chan[ch].hb # "err"

Heartbeats(ch) == SelectSeq(chan[ch].events, IsHeartbeat)

\* C14: while a channel is open and its writes succeed, a heartbeat tick can fire
\* in every state of the poll loop (waiting or not), each tick whose write
\* succeeds adds exactly one heartbeat event and nothing else adds one, and on a
\* session whose status does not change the channel carries at most one status
\* event, exactly one once the first poll has been written, however many
\* heartbeats were written.
C14_HeartbeatPerTick ==
    /\ [](\A ch \in Chans :
            /\ (Healthy(ch) /\ chan[ch].hb = "none"
                  /\ Len(Heartbeats(ch)) < QuietHeartbeats
                  /\ Len(chan[ch].events) < QuietEvents)
                 => ENABLED QuietHeartbeatTick(ch)
            /\ Len(StatusEvents(ch)) <= 1
            /\ (Healthy(ch) /\ chan[ch].pc = "sleep") => Len(StatusEvents(ch)) = 1)
    /\ [][\A ch \in Chans :
            IF chan[ch].hb = "none" /\ chan'[ch].hb = "ok"
              THEN chan'[ch].events = Append(chan[ch].events, HeartbeatEvent)
              ELSE Len(SelectSeq(chan'[ch].events, IsHeartbeat)) = Len(Heartbeats(ch))]_vars

\* three heartbeats and one status event on a channel that is still open,
\* the poll loop waiting
C14_Witness ==
    \E ch \in Chans :
        /\ Healthy(ch)
        /\ chan[ch].pc = "sleep"
        /\ Len(Heartbeats(ch)) >= 3
        /\ Len(StatusEvents(ch)) = 1

\* the position of a status in the sequence the happy path is said to follow
Rank(status) ==
    CASE status = "idle"          -> 0
      [] status = "bootstrapping" -> 1
      [] status = "planning"      -> 2
      [] status = "generating"    -> 3
      [] status = "completed"     -> 4
      [] OTHER                    -> 5

IsPhaseCompleted(ev) == ev.event = "phase_completed"

\* C15: in a run started with a plan of PlanPhases phases whose phases all
\* succeed, the session's status goes idle, bootstrapping, planning, generating,
\* completed in that order, and a subscriber connected for the whole run has
\* received exactly PlanPhases phase_completed events when its channel closes.
C15_HappyPath ==
    /\ [][CurrentState'.status # CurrentState.status
            => Rank(CurrentState'.status) = Rank(CurrentState.status) + 1]_vars
    /\ [](\A ch \in Chans :
            (/\ chan[ch].pc = "closed"
             /\ HasTerminalStatusEvent(ch)
             /\ ~\E i \in 1..Len(chan[ch].events) : IsError(chan[ch].events[i]))
               => Len(SelectSeq(chan[ch].events, IsPhaseCompleted)) = PlanPhases)

\* ---- properties of phase generation ------------------------------------------
Primary  == Providers[1]
Fallback == Providers[Len(Providers)]

CallsTo(target) == SelectSeq(inf.calls, LAMBDA c : c.target = target)

\* generatePhase has finished by failing
PhaseFailed == inf.site = "generatePhase" /\ inf.pc \in {"emit", "threw"}

\* C16: for one phase generation in which the primary provider failed with a
\* recoverable error on every retry attempt, the fallback provider has been
\* called exactly once when the failure is surfaced.
C16_FallbackExactlyOnce ==
    (/\ PhaseFailed
     /\ \A i \in 1..Len(inf.calls) :
           inf.calls[i].target = Primary
              => ~inf.calls[i].ok /\ IsRecoverable(inf.calls[i].val))
       => Len(CallsTo(Fallback)) = 1

\* C17: the providers are called in their configured order and the loop stops
\* at the first success: a call to the fallback directly follows a failed call
\* to the primary in the same attempt, a failed primary is followed by the
\* fallback, no call follows a success, and a phase generation that returns,
\* returns the text of the provider whose call succeeded.
C17_ProviderOrder ==
    inf.site = "generatePhase" =>
      /\ \A i \in 1..Len(inf.calls) :
            /\ inf.calls[i].target = Fallback
                 => /\ i > 1
                    /\ inf.calls[i-1].target = Primary
                    /\ ~inf.calls[i-1].ok
                    /\ inf.calls[i-1].attempt = inf.calls[i].attempt
            /\ (inf.calls[i].target = Primary /\ ~inf.calls[i].ok)
                 => IF i < Len(inf.calls)
                      THEN inf.calls[i+1].target = Fallback
                      ELSE inf.pc = "gen" /\ Providers[inf.provider] = Fallback
            /\ inf.calls[i].ok
                 => /\ i = Len(inf.calls)
                    /\ inf.pc = "returned"
                    /\ inf.ret = inf.calls[i].target
      /\ inf.pc = "returned"
           => /\ Len(inf.calls) > 0
              /\ inf.calls[Len(inf.calls)].ok
      /\ inf.pc = "gen" /\ Providers[inf.provider] = Primary
           => (Len(inf.calls) = 0 \/ inf.calls[Len(inf.calls)].target = Fallback)

\* the primary failed in every attempt and the phase returned the fallback's text
C17_Witness ==
    /\ inf.site = "generatePhase"
    /\ inf.pc = "returned"
    /\ inf.ret = Fallback
    /\ Len(CallsTo(Primary)) >= 2
    /\ \A i \in 1..Len(inf.calls) : inf.calls[i].target = Primary => ~inf.calls[i].ok

\* the settled call with which an invocation of fn ended
EndsFn(c) == c.ok \/ c.target = "fn" \/ c.target = Fallback

\* C18: at a call site that classifies errors, and in generatePhase, no call is
\* made after an invocation of the operation failed with a non-recoverable
\* error.
C18_NonRecoverableNotRetried ==
    (inf.site = "generatePhase" \/ (inf.site = "withRetry" /\ inf.shouldRetry))
      => \A i \in 1..Len(inf.calls) :
            (EndsFn(inf.calls[i]) /\ ~inf.calls[i].ok /\ ~IsRecoverable(inf.calls[i].val))
               => /\ i = Len(inf.calls)
                  /\ inf.pc \in {"emit", "threw"}

\* C19: once the cancellation signal was raised during a call of a phase's
\* generation, no further call is made (no fallback call, no retry), and a
\* phase that fails, fails with the reason cancelled.
C19_CancelStopsAttempts ==
    (inf.site = "generatePhase" /\ inf.cancelled # 0)
      => /\ Len(inf.calls) + (IF inf.pc = "gen" THEN 1 ELSE 0) <= inf.cancelled
         /\ \A i \in 1..Len(inf.emitted) : inf.emitted[i].error = "cancelled"

Invocations == Len(inf.calls) + (IF inf.pc = "fn" THEN 1 ELSE 0)

\* C20: withRetry invokes the operation at most maxAttempts times, invokes it
\* no more after a success and returns that success's value, and when it throws
\* it throws the error of the last invocation, after maxAttempts invocations
\* unless shouldRetry rejected that error.
C20_BoundedRetry ==
    /\ inf.attempt <= inf.maxAttempts
    /\ inf.site = "withRetry" =>
         /\ Invocations <= inf.maxAttempts
         /\ \A i \in 1..Len(inf.calls) :
               /\ inf.calls[i].attempt = i
               /\ inf.calls[i].ok
                    => /\ i = Len(inf.calls)
                       /\ inf.pc = "returned"
                       /\ inf.ret = inf.calls[i].val
         /\ inf.pc = "returned" => Len(inf.calls) > 0 /\ inf.calls[Len(inf.calls)].ok
         /\ (inf.pc = "threw" /\ inf.maxAttempts >= 1)
              => /\ Len(inf.calls) > 0
                 /\ ~inf.calls[Len(inf.calls)].ok
                 /\ inf.err = inf.calls[Len(inf.calls)].val
                 /\ \/ Len(inf.calls) = inf.maxAttempts
                    \/ inf.shouldRetry /\ ~IsRecoverable(inf.err)

\* three invocations failed with different errors and the last error was thrown
C20_Witness ==
    /\ inf.site = "withRetry"
    /\ inf.pc = "threw"
    /\ inf.maxAttempts = 3
    /\ Len(inf.calls) = 3
    /\ inf.calls[1].val # inf.calls[3].val
    /\ inf.err = inf.calls[3].val

\* C21: the delay waited after failed attempt k is backoffMs * 2^(k-1), or the
\* cap when that product exceeds it: the first delay is backoffMs, each delay is
\* twice the one before or the cap, and exactly one delay follows each failed
\* attempt but the last, so none is waited after the final attempt.
C21_BackoffDelays ==
    inf.site \in {"withRetry", "generatePhase"} =>
      /\ \A k \in 1..Len(inf.delays) :
            /\ k < inf.maxAttempts
            /\ inf.delays[k] <= DefaultMaxBackoffMs
            /\ \/ inf.delays[k] = inf.backoffMs * (2 ^ (k - 1))
               \/ /\ inf.delays[k] = DefaultMaxBackoffMs
                  /\ inf.backoffMs * (2 ^ (k - 1)) > DefaultMaxBackoffMs
            /\ k > 1 => \/ inf.delays[k] = 2 * inf.delays[k-1]
                        \/ inf.delays[k] = DefaultMaxBackoffMs
      /\ Len(inf.delays) = IF inf.pc = "sleep" THEN inf.attempt
                           ELSE IF inf.attempt = 0 THEN 0 ELSE inf.attempt - 1

\* two delays were waited, the second one cut down to the cap
C21_Witness ==
    /\ inf.site = "withRetry"
    /\ inf.pc \in {"threw", "returned"}
    /\ Len(inf.calls) = 3
    /\ inf.delays = <<16000, DefaultMaxBackoffMs>>

\* C23: a phase generation that has ended has emitted exactly one terminal
\* phase event: phase_completed when it returned, phase_failed carrying the
\* error of the last attempt when it threw, and what it threw is a
\* PhaseGenerationError.
C23_OneTerminalPhaseEvent ==
    inf.site = "generatePhase" =>
      /\ inf.pc = "returned"
           => /\ Len(inf.emitted) = 1
              /\ inf.emitted[1].type = "phase_completed"
      /\ inf.pc = "threw"
           => /\ Len(inf.emitted) = 1
              /\ inf.emitted[1].type = "phase_failed"
              /\ inf.emitted[1].error = inf.calls[Len(inf.calls)].val
              /\ inf.err = "PhaseGenerationError"
      /\ inf.pc \in {"gen", "sleep"} => Len(inf.emitted) = 0

\* C24: a failed phase halts the session with no skip-ahead: once the session is
\* failed at phase currentPhase, no later phase is entered (the cursor does not
\* move past the failed phase) and the failed status is not left by advancing.
C24_NoSkipAhead ==
    [][(mem # NoState /\ mem' # NoState /\ mem.status = "failed")
          => /\ mem'.currentPhase <= mem.currentPhase
             /\ mem'.status \in {"failed", "bootstrapping"}]_vars

UpdateOps == {"startGeneration", "advancePhase", "failGeneration"}

\* C28: when storage.put rejects inside updateState, the update is not applied:
\* once the call has thrown, the in-memory state, which the next getState
\* returns, is still the stored state from before the call.
C28_FailedWriteNotApplied ==
    \A s \in Slots :
        (call[s].pc = "threw" /\ call[s].op \in UpdateOps /\ stored # NoState)
           => mem = stored

\* C27: whichever way the stream handler exits, once it has finished the
\* heartbeat timer is cancelled and the channel is marked inactive, and from then
\* on the channel stays finished and no event is written on it.
C27_NoHeartbeatAfterFinish ==
    /\ [](\A ch \in Chans :
            chan[ch].pc = "closed" => ~chan[ch].isActive /\ ~chan[ch].timer)
    /\ [][\A ch \in Chans :
            chan[ch].pc = "closed"
               => /\ chan'[ch].pc = "closed"
                  /\ chan'[ch].events = chan[ch].events]_vars

\* the handler finished through its catch block while a heartbeat write that had
\* reached the channel was still being awaited
C27_Witness ==
    \E ch \in Chans :
        /\ chan[ch].pc = "closed"
        /\ chan[ch].hb = "ok"
        /\ \E i \in 1..Len(chan[ch].events) : IsError(chan[ch].events[i])

C22_InvalidKeyFailsFast ==
    /\ keys.pc \in {"configured", "sent"}
         => /\ isValidApiKey(keys.env[EnvKey(keys.provider)])
            /\ keys.apiKey = keys.env[EnvKey(keys.provider)]
    /\ \A i \in 1..Len(keys.requests) :
          /\ isValidApiKey(keys.env[EnvKey(keys.requests[i].provider)])
          /\ keys.requests[i].apiKey = keys.env[EnvKey(keys.requests[i].provider)]

\* the catalog could not be had: listTemplates threw, did not report success, or
\* reported an empty catalog
NoCatalog ==
    \/ tmpl.list.kind \in {"throws", "undefined", "failure", "malformed"}
    \/ tmpl.list.kind = "success" /\ tmpl.list.templates = {}

\* C25: when the catalog could not be had, getTemplateForQuery throws having
\* called neither selectTemplate nor getTemplateDetails; and when it returns,
\* the selected name is non-empty and in the catalog, the one getTemplateDetails
\* call made was for that name, and it succeeded with details.
C25_TemplatePreconditions ==
    /\ NoCatalog => /\ tmpl.pc = "threw"
                    /\ tmpl.calls = << <<"listTemplates">> >>
    /\ tmpl.pc = "returned"
         => /\ tmpl.selection.selectedTemplateName # ""
            /\ tmpl.selection.selectedTemplateName \in tmpl.list.templates
            /\ tmpl.list.kind = "success"
            /\ tmpl.calls = << <<"listTemplates">>, <<"selectTemplate">>,
                               <<"getTemplateDetails", tmpl.selection.selectedTemplateName>> >>
            /\ tmpl.details = "details"
            /\ tmpl.ret = tmpl.selection.selectedTemplateName

\* a template of a two-template catalog was selected and returned with its details
C25_Witness ==
    /\ tmpl.pc = "returned"
    /\ tmpl.list.templates = {"t1", "t2"}
    /\ tmpl.ret = "t2"

\* C29: cloneAgent never writes the source agent's state; on a source that is
\* not initialised it throws without writing any state; otherwise the only
\* state it writes is the new agent's, which is the source state it read with
\* sessionId the new id, shouldBeGenerating false, generationPromise and
\* sandboxInstanceId unset, currentDevState 0 and pendingUserInputs and
\* clientReportedErrors empty.
C29_CloneLeavesSource ==
    /\ [][\A a \in AgentIds :
            (agents'.states[a] # agents.states[a] /\ agents'.worked = agents.worked)
               => /\ a = agents.newAgentId
                  /\ a # agents.agentId
                  /\ agents.initialized]_vars
    /\ [](/\ (agents.pc \notin {"idle", "is_initialized"} /\ ~agents.initialized)
               => /\ agents.pc = "threw"
                  /\ \A a \in AgentIds : agents.states[a] = Uninitialized
          /\ agents.pc = "returned"
               => LET new == agents.states[agents.newAgentId]
                      old == agents.originalState
                  IN  /\ old.sessionId = agents.agentId
                      /\ new.sessionId = agents.newAgentId
                      /\ new.shouldBeGenerating = FALSE
                      /\ new.generationPromise = "undefined"
                      /\ new.sandboxInstanceId = "undefined"
                      /\ new.currentDevState = 0
                      /\ new.pendingUserInputs = <<>>
                      /\ new.clientReportedErrors = <<>>
                      /\ new.query = old.query
                      /\ DOMAIN new = DOMAIN old
                      /\ ~agents.worked => old = agents.states[agents.agentId])

\* a source that was generating, with pending inputs and a sandbox, was cloned
C29_Witness ==
    /\ agents.pc = "returned"
    /\ agents.originalState.shouldBeGenerating
    /\ agents.originalState.sandboxInstanceId = "sb1"
    /\ agents.originalState.pendingUserInputs # <<>>
    /\ agents.states[agents.agentId] = agents.originalState

\* C30: whatever addFiles, removeFile and clearFiles calls were made, the
\* attachment list holds at most 2 images (with or without dimensions), at most
\* 10 code files and at most 1 archive.
C30_AttachmentLimits ==
    /\ CountOf(upload.files, {"image", "imageNoDims"}) <= MAX_IMAGES_PER_MESSAGE
    /\ CountOf(upload.files, {"code"}) <= MAX_CODE_FILES_PER_MESSAGE
    /\ CountOf(upload.files, {"archive"}) <= MAX_ARCHIVES_PER_MESSAGE

====
